---- MODULE Spec2Model ----
(***************************************************************************)
(* The local data store of the RedCar workshop application                 *)
(* (providers/data-provider.tsx): five in-memory collections held in React *)
(* state, loaded from AsyncStorage at startup, changed by create / update  *)
(* / delete updaters and written back as whole JSON snapshots by the       *)
(* persist effects.                                                        *)
(*                                                                         *)
(* A record is a function from field names to values.  Every value is a    *)
(* string; the JavaScript values undefined, null and a non-finite number   *)
(* are the three distinguished strings below.  Each entity carries its     *)
(* identity, the fields the store itself writes (Part.updatedAt), its      *)
(* optional fields and a few of its required data fields: the remaining    *)
(* required fields travel through the same object spread and are left out. *)
(***************************************************************************)
EXTENDS Integers, Sequences, FiniteSets, TLC

\* ------------------------------------------------------------------ bounds
\* operations called, storage failures and restarts in one behaviour
MaxEvents == 2
\* storage calls that may be outstanding when an operation is called
MaxOutstanding == 2
\* clock readings after the first
MaxTime == 1
\* records of a collection, from its head, that an operation is aimed at
MaxTargets == 1

\* ------------------------------------------------------------ collections
Coll == {"parts", "revisions", "team", "clients", "suppliers"}

STORAGE_KEYS ==
  [c \in Coll |-> "@redcar/" \o c]

Keys == {STORAGE_KEYS[c] : c \in Coll}

\* ------------------------------------------------------------------ values
UNDEF == "#undefined"
NULL == "#null"
INF == "Infinity"

\* crypto.randomUUID(): a value never returned before, here the n-th of them
generateId(n) == "u" \o ToString(n)

\* new Date().toISOString() at clock reading t
nowIso(t) == "t" \o ToString(t)

\* obj.f in JavaScript: undefined when the object has no such key
Get(r, f) == IF f \in DOMAIN r THEN r[f] ELSE UNDEF

\* { ...a, ...b }: the keys of both, b's value where both carry the key
Spread(a, b) ==
  [f \in (DOMAIN a) \cup (DOMAIN b) |-> IF f \in DOMAIN b THEN b[f] ELSE a[f]]

IdsOf(s) == {Get(s[i], "id") : i \in 1..Len(s)}

\* --------------------------------------------------------------- JSON text
\* JSON.stringify of one record: a key whose value is undefined is left out,
\* a non-finite number is written as null
\* a stringify that writes an undefined value as null instead of leaving the key out
StringifyRec_UndefinedAsNull(r) ==
  [f \in DOMAIN r |-> IF r[f] \in {INF, UNDEF} THEN NULL ELSE r[f]]

StringifyRec(r) ==
  [f \in {g \in DOMAIN r : r[g] # UNDEF} |-> IF r[f] = INF THEN NULL ELSE r[f]]

\* JSON.stringify(value) of a collection: the text, kept as the parsed form
\* that text denotes
Stringify(s) ==
  [kind |-> "json", items |-> [i \in 1..Len(s) |-> StringifyRec(s[i])]]

\* JSON.parse(raw) of a text that Stringify wrote
Parse(raw) == raw.items

\* getItem's answers: null for a key never written, a text that is not JSON
ABSENT == [kind |-> "null"]
CORRUPT == [kind |-> "garbage"]

\* ------------------------------------------------------------------- state
VARIABLES
  storage,    \* AsyncStorage: key -> stored text
  loadPc,     \* per collection: where its loadCollection call stands
  loaded,     \* per collection: the value its loadCollection call resolved to
  isReady,    \* useState(false)
  mem,        \* the five useState collections
  dirty,      \* per collection: its persist effect has a changed dependency
  inflight,   \* per collection: the setItem calls of persistCollection not yet settled
  bootId,     \* how many identities had been generated when this process started
  bootTime,   \* the clock reading when this process started
  nextId,     \* how many identities have been generated
  now,        \* the last clock reading taken
  last,       \* the last store operation called and what it was applied to
  touched,    \* the collections an operation was called on since the last bootstrap
  source,     \* per key: the in-memory collection whose text the key holds
  startStorage, \* storage as it was when this process started
  ops,        \* operations called so far
  faults,     \* storage failures so far
  boots,      \* restarts so far
  screen,     \* the entity screens: record being edited, form shown, alert shown
  lost        \* identities of the records bootstrap replaced in the placeholders

vars == <<storage, loadPc, loaded, isReady, mem, dirty, inflight, bootId,
          bootTime, nextId, now, last, touched, source, startStorage, ops,
          faults, boots, screen, lost>>

\* -------------------------------------------------------------- seed data
defaultTeam(b, t) ==
  << [id |-> generateId(b), name |-> "Renato Albuquerque"],
     [id |-> generateId(b + 1), name |-> "Isabela Monteiro"] >>

defaultParts(b, t) ==
  << [id |-> generateId(b + 2), name |-> "Filtro de oleo sintetico",
      quantity |-> "18", updatedAt |-> nowIso(t)],
     [id |-> generateId(b + 3), name |-> "Pastilha de freio ceramica",
      quantity |-> "8", updatedAt |-> nowIso(t)] >>

\* seed revisions assigned to identities generated for the purpose instead
\* of the identities of the seed team
defaultRevisions_OwnIds(b, t) ==
  << [id |-> generateId(b + 4), clientName |-> "Juliana Souza",
      status |-> "agendada", assignedTo |-> generateId(b + 12),
      notes |-> "Cliente aguarda contato caso haja orcamento adicional."],
     [id |-> generateId(b + 5), clientName |-> "Carlos Henrique",
      status |-> "em andamento", assignedTo |-> generateId(b + 11),
      notes |-> "Pecas separadas, aguardar aprovacao para itens extras."],
     [id |-> generateId(b + 6), clientName |-> "Maria Silva",
      status |-> "concluida", assignedTo |-> generateId(b + 11),
      notes |-> "Servico concluido com sucesso. Cliente satisfeito."] >>

defaultRevisions(b, t) ==
  << [id |-> generateId(b + 4), clientName |-> "Juliana Souza",
      status |-> "agendada", assignedTo |-> defaultTeam(b, t)[2].id,
      notes |-> "Cliente aguarda contato caso haja orcamento adicional."],
     [id |-> generateId(b + 5), clientName |-> "Carlos Henrique",
      status |-> "em andamento", assignedTo |-> defaultTeam(b, t)[1].id,
      notes |-> "Pecas separadas, aguardar aprovacao para itens extras."],
     [id |-> generateId(b + 6), clientName |-> "Maria Silva",
      status |-> "concluida", assignedTo |-> defaultTeam(b, t)[1].id,
      notes |-> "Servico concluido com sucesso. Cliente satisfeito."] >>

defaultClients(b, t) ==
  << [id |-> generateId(b + 7), name |-> "Fernanda Azevedo",
      preferredAdvisor |-> defaultTeam(b, t)[1].id,
      notes |-> "Prefere agendamentos pela manha."],
     [id |-> generateId(b + 8), name |-> "Tiago Martins",
      notes |-> "Solicitou orcamento para instalacao de acessorios."] >>

defaultSuppliers(b, t) ==
  << [id |-> generateId(b + 9), company |-> "AutoParts Brasil", rating |-> "4.8"],
     [id |-> generateId(b + 10), company |-> "PneusMax", rating |-> "4.3"] >>

\* identities generated while the module's seed constants are evaluated
SeedIds == 11

\* the fallback argument bootstrap passes to loadCollection for each key
Defaults(c) ==
  CASE c = "parts" -> defaultParts(bootId, bootTime)
    [] c = "revisions" -> defaultRevisions(bootId, bootTime)
    [] c = "team" -> defaultTeam(bootId, bootTime)
    [] c = "clients" -> defaultClients(bootId, bootTime)
    [] c = "suppliers" -> defaultSuppliers(bootId, bootTime)

NoOp == [op |-> "none"]

\* the screens as they mount: no record being edited (useState(null)), no
\* form shown (useState(false)), no alert shown, no submit in progress
NoAlert == [coll |-> "none"]

NoSubmit == [coll |-> "none"]

Idle ==
  [editing |-> [c \in Coll |-> {}], visible |-> [c \in Coll |-> FALSE],
   opened |-> [c \in Coll |-> "none"], alert |-> NoAlert, submit |-> NoSubmit]

\* ---------------------------------------------------------------- updaters
\* Each operator is the function the operation hands to its state setter:
\* from the previous sequence to the next one.  gid is the value generateId()
\* returns in the call, t the clock reading nowIso() takes.

createPart(previous, input, gid, t) ==
  <<Spread([id |-> gid, updatedAt |-> nowIso(t)], input)>> \o previous

updatePart(previous, id, input, t) ==
  [i \in 1..Len(previous) |->
     IF Get(previous[i], "id") = id
     THEN Spread(Spread(Spread(previous[i], input), [updatedAt |-> nowIso(t)]),
                 [id |-> id])
     ELSE previous[i]]

deletePart(previous, id) ==
  SelectSeq(previous, LAMBDA item : Get(item, "id") # id)

createRevision(previous, input, gid) ==
  <<Spread([id |-> gid], input)>> \o previous

\* updateRevision replacing the record by the input instead of merging
updateRevision_Replaces(previous, id, input) ==
  [i \in 1..Len(previous) |->
     IF Get(previous[i], "id") = id
     THEN Spread(input, [id |-> id])
     ELSE previous[i]]

updateRevision(previous, id, input) ==
  [i \in 1..Len(previous) |->
     IF Get(previous[i], "id") = id
     THEN Spread(Spread(previous[i], input), [id |-> id])
     ELSE previous[i]]

\* deleteRevision with the filter's test inverted
deleteRevision_KeepsMatch(previous, id) ==
  SelectSeq(previous, LAMBDA item : Get(item, "id") = id)

deleteRevision(previous, id) ==
  SelectSeq(previous, LAMBDA item : Get(item, "id") # id)

createTeamMember(previous, input, gid) ==
  <<Spread([id |-> gid], input)>> \o previous

\* updateTeamMember spreading the input after the id, as the creates do
updateTeamMember_InputLast(previous, id, input) ==
  [i \in 1..Len(previous) |->
     IF Get(previous[i], "id") = id
     THEN Spread(Spread(previous[i], [id |-> id]), input)
     ELSE previous[i]]

updateTeamMember(previous, id, input) ==
  [i \in 1..Len(previous) |->
     IF Get(previous[i], "id") = id
     THEN Spread(Spread(previous[i], input), [id |-> id])
     ELSE previous[i]]

deleteTeamMember(previous, id) ==
  SelectSeq(previous, LAMBDA item : Get(item, "id") # id)

createClient(previous, input, gid) ==
  <<Spread([id |-> gid], input)>> \o previous

updateClient(previous, id, input) ==
  [i \in 1..Len(previous) |->
     IF Get(previous[i], "id") = id
     THEN Spread(Spread(previous[i], input), [id |-> id])
     ELSE previous[i]]

deleteClient(previous, id) ==
  SelectSeq(previous, LAMBDA item : Get(item, "id") # id)

createSupplier(previous, input, gid) ==
  <<Spread([id |-> gid], input)>> \o previous

\* updateSupplier inserting the record when no record has the id
updateSupplier_Upserts(previous, id, input) ==
  IF \E i \in 1..Len(previous) : Get(previous[i], "id") = id
  THEN [i \in 1..Len(previous) |->
          IF Get(previous[i], "id") = id
          THEN Spread(Spread(previous[i], input), [id |-> id])
          ELSE previous[i]]
  ELSE <<Spread(input, [id |-> id])>> \o previous

updateSupplier(previous, id, input) ==
  [i \in 1..Len(previous) |->
     IF Get(previous[i], "id") = id
     THEN Spread(Spread(previous[i], input), [id |-> id])
     ELSE previous[i]]

\* deleteSupplier removing the first record when no record has the id
deleteSupplier_FirstIfMissing(previous, id) ==
  IF \E i \in 1..Len(previous) : Get(previous[i], "id") = id
  THEN SelectSeq(previous, LAMBDA item : Get(item, "id") # id)
  ELSE IF previous = <<>> THEN previous ELSE Tail(previous)

deleteSupplier(previous, id) ==
  SelectSeq(previous, LAMBDA item : Get(item, "id") # id)

\* the create / update / delete operation the context exposes for collection c
CreateOf(c, previous, input, gid, t) ==
  CASE c = "parts" -> createPart(previous, input, gid, t)
    [] c = "revisions" -> createRevision(previous, input, gid)
    [] c = "team" -> createTeamMember(previous, input, gid)
    [] c = "clients" -> createClient(previous, input, gid)
    [] c = "suppliers" -> createSupplier(previous, input, gid)

UpdateOf(c, previous, id, input, t) ==
  CASE c = "parts" -> updatePart(previous, id, input, t)
    [] c = "revisions" -> updateRevision(previous, id, input)
    [] c = "team" -> updateTeamMember(previous, id, input)
    [] c = "clients" -> updateClient(previous, id, input)
    [] c = "suppliers" -> updateSupplier(previous, id, input)

DeleteOf(c, previous, id) ==
  CASE c = "parts" -> deletePart(previous, id)
    [] c = "revisions" -> deleteRevision(previous, id)
    [] c = "team" -> deleteTeamMember(previous, id)
    [] c = "clients" -> deleteClient(previous, id)
    [] c = "suppliers" -> deleteSupplier(previous, id)

\* ------------------------------------------------------------------ inputs
\* The payloads the callers hand to the store.  A form leaves an optional
\* field it did not fill as a key holding undefined; a payload typed
\* Omit<T, 'id'> may also lack the optional keys altogether.
Payloads(c) ==
  CASE c = "parts" ->
         {[name |-> "Vela de ignicao", quantity |-> "5"],
          [name |-> "Vela de ignicao", quantity |-> INF]}
    [] c = "revisions" ->
         {[clientName |-> "Lia Prado", status |-> "agendada",
           assignedTo |-> UNDEF, notes |-> UNDEF],
          [clientName |-> "Lia Prado", status |-> "concluida"]}
    [] c = "team" -> {[name |-> "Ana Lopes"]}
    [] c = "clients" ->
         {[name |-> "Caio Reis", preferredAdvisor |-> UNDEF, notes |-> UNDEF],
          [name |-> "Caio Reis"]}
    [] c = "suppliers" -> {[company |-> "Tintas Sul", rating |-> "4.0"]}

Min(a, b) == IF a < b THEN a ELSE b

\* A record of the collection handed back whole as the input (it carries
\* that record's id and, for a part, its updatedAt): TypeScript accepts a T
\* where Omit<T, 'id'> is asked for.  The record is the second of the
\* collection, or the only one.
Inputs(c) ==
  Payloads(c) \cup (IF mem[c] = <<>> THEN {} ELSE {mem[c][Min(2, Len(mem[c]))]})

\* the identities an operation is called with: those of the first records of
\* the collection, the one the last delete on the collection was called with
\* (a second tap on the same row), and one that no record has
Targets(c) ==
  {Get(mem[c][i], "id") : i \in 1..Min(Len(mem[c]), MaxTargets)}
    \cup (IF last.op = "delete" /\ last.coll = c THEN {last.id} ELSE {})
    \cup {"no-such-id"}

\* ------------------------------------------------------------ the budgets
Events == ops + faults + boots

RECURSIVE SumLen(_, _)
SumLen(f, S) ==
  IF S = {} THEN 0
  ELSE LET c == CHOOSE x \in S : TRUE IN Len(f[c]) + SumLen(f, S \ {c})

\* storage calls issued and not yet settled: the loads and the persist writes
Outstanding ==
  Cardinality({c \in Coll : loadPc[c] = "pending"}) + SumLen(inflight, Coll)

\* ---------------------------------------------------------------- startup
Init ==
  /\ storage \in [Keys -> {ABSENT, CORRUPT}]
  /\ Cardinality({k \in Keys : storage[k] = CORRUPT}) <= MaxEvents
  /\ faults = Cardinality({k \in Keys : storage[k] = CORRUPT})
  /\ loadPc = [c \in Coll |-> "pending"]
  /\ loaded = [c \in Coll |-> <<>>]
  /\ isReady = FALSE
  /\ mem = [c \in Coll |-> <<>>]
  /\ dirty = [c \in Coll |-> FALSE]
  /\ inflight = [c \in Coll |-> <<>>]
  /\ bootId = 0
  /\ bootTime = 0
  /\ nextId = SeedIds
  /\ now = 0
  /\ last = NoOp
  /\ touched = {}
  /\ source = [k \in Keys |-> <<>>]
  /\ startStorage = storage
  /\ ops = 0
  /\ boots = 0
  /\ screen = Idle
  /\ lost = {}

\* loadCollection returning the fallback for an absent key without writing it
Load_NoSeedWrite(c) ==
  /\ loadPc[c] = "pending"
  /\ LET raw == storage[STORAGE_KEYS[c]] IN
       /\ loaded' = [loaded EXCEPT ![c] =
                       IF raw \in {ABSENT, CORRUPT} THEN Defaults(c) ELSE Parse(raw)]
       /\ loadPc' = [loadPc EXCEPT ![c] = IF raw = CORRUPT THEN "failed" ELSE "done"]
  /\ UNCHANGED <<screen, lost, storage, source, isReady, mem, dirty, inflight, bootId,
                 bootTime, nextId, now, last, touched, startStorage, ops,
                 faults, boots>>

\* loadCollection handing its result to the state setter as soon as it has it
Load_SetsEagerly(c) ==
  /\ loadPc[c] = "pending"
  /\ LET raw == storage[STORAGE_KEYS[c]] IN
       /\ storage' = IF raw = ABSENT
                     THEN [storage EXCEPT ![STORAGE_KEYS[c]] = Stringify(Defaults(c))]
                     ELSE storage
       /\ source' = IF raw = ABSENT
                    THEN [source EXCEPT ![STORAGE_KEYS[c]] = Defaults(c)]
                    ELSE source
       /\ loaded' = [loaded EXCEPT ![c] =
                       IF raw \in {ABSENT, CORRUPT} THEN Defaults(c) ELSE Parse(raw)]
       /\ mem' = [mem EXCEPT ![c] =
                    IF raw \in {ABSENT, CORRUPT} THEN Defaults(c) ELSE Parse(raw)]
       /\ loadPc' = [loadPc EXCEPT ![c] = IF raw = CORRUPT THEN "failed" ELSE "done"]
  /\ UNCHANGED <<screen, lost, isReady, dirty, inflight, bootId, bootTime, nextId, now,
                 last, touched, startStorage, ops, faults, boots>>

\* loadCollection(key, fallback), every storage call of it succeeding: an
\* absent key is seeded and the fallback returned, a text that does not parse
\* throws into the catch, which returns the fallback, any other text is
\* parsed and returned as it is
Load(c) ==
  /\ loadPc[c] = "pending"
  /\ LET raw == storage[STORAGE_KEYS[c]] IN
       /\ storage' = IF raw = ABSENT
                     THEN [storage EXCEPT ![STORAGE_KEYS[c]] = Stringify(Defaults(c))]
                     ELSE storage
       /\ source' = IF raw = ABSENT
                    THEN [source EXCEPT ![STORAGE_KEYS[c]] = Defaults(c)]
                    ELSE source
       /\ loaded' = [loaded EXCEPT ![c] =
                       IF raw \in {ABSENT, CORRUPT} THEN Defaults(c) ELSE Parse(raw)]
       /\ loadPc' = [loadPc EXCEPT ![c] = IF raw = CORRUPT THEN "failed" ELSE "done"]
  /\ UNCHANGED <<screen, lost, isReady, mem, dirty, inflight, bootId, bootTime, nextId, now,
                 last, touched, startStorage, ops, faults, boots>>

\* loadCollection whose catch writes the fallback to the key
LoadFail_SeedsInCatch(c) ==
  /\ loadPc[c] = "pending"
  /\ Events < MaxEvents
  /\ faults' = faults + 1
  /\ loadPc' = [loadPc EXCEPT ![c] = "failed"]
  /\ loaded' = [loaded EXCEPT ![c] = Defaults(c)]
  /\ storage' = [storage EXCEPT ![STORAGE_KEYS[c]] = Stringify(Defaults(c))]
  /\ source' = [source EXCEPT ![STORAGE_KEYS[c]] = Defaults(c)]
  /\ UNCHANGED <<screen, lost, isReady, mem, dirty, inflight, bootId, bootTime, nextId, now,
                 last, touched, startStorage, ops, boots>>

\* loadCollection rethrowing from its catch: its promise rejects and resolves
\* to no collection
LoadFail_Rethrows(c) ==
  /\ loadPc[c] = "pending"
  /\ Events < MaxEvents
  /\ faults' = faults + 1
  /\ loadPc' = [loadPc EXCEPT ![c] = "rejected"]
  /\ UNCHANGED <<screen, lost, storage, loaded, isReady, mem, dirty, inflight, bootId,
                 bootTime, nextId, now, last, touched, source, startStorage,
                 ops, boots>>

\* loadCollection with a rejected storage call (getItem, or the setItem that
\* seeds an absent key): the catch returns the fallback, storage is as it was
LoadFail(c) ==
  /\ loadPc[c] = "pending"
  /\ Events < MaxEvents
  /\ faults' = faults + 1
  /\ loadPc' = [loadPc EXCEPT ![c] = "failed"]
  /\ loaded' = [loaded EXCEPT ![c] = Defaults(c)]
  /\ UNCHANGED <<screen, lost, storage, isReady, mem, dirty, inflight, bootId, bootTime,
                 nextId, now, last, touched, source, startStorage, ops, boots>>

\* bootstrap going on as soon as one load has resolved (Promise.race)
Bootstrap_AfterFirstLoad ==
  /\ ~isReady
  /\ \E c \in Coll : loadPc[c] # "pending"
  /\ mem' = loaded
  /\ isReady' = TRUE
  /\ dirty' = [c \in Coll |-> TRUE]
  /\ last' = NoOp
  /\ touched' = {}
  /\ lost' = lost \cup UNION {IdsOf(mem[c]) : c \in Coll}
  /\ UNCHANGED <<screen, storage, loadPc, loaded, inflight, bootId, bootTime, nextId,
                 now, source, startStorage, ops, faults, boots>>

\* bootstrap going on only when no load used its catch (a loadCollection
\* that rethrows makes Promise.all reject)
Bootstrap_NeedsAllSucceeded ==
  /\ ~isReady
  /\ \A c \in Coll : loadPc[c] = "done"
  /\ mem' = loaded
  /\ isReady' = TRUE
  /\ dirty' = [c \in Coll |-> TRUE]
  /\ last' = NoOp
  /\ touched' = {}
  /\ lost' = lost \cup UNION {IdsOf(mem[c]) : c \in Coll}
  /\ UNCHANGED <<screen, storage, loadPc, loaded, inflight, bootId, bootTime, nextId,
                 now, source, startStorage, ops, faults, boots>>

\* bootstrap putting the loaded records behind those already in the
\* placeholder (setParts((previous) => [...previous, ...storedParts]))
Bootstrap_KeepsPlaceholder ==
  /\ ~isReady
  /\ \A c \in Coll : loadPc[c] # "pending"
  /\ mem' = [c \in Coll |-> mem[c] \o loaded[c]]
  /\ isReady' = TRUE
  /\ dirty' = [c \in Coll |-> TRUE]
  /\ last' = NoOp
  /\ touched' = {}
  /\ lost' = lost \cup UNION {IdsOf(mem[c]) : c \in Coll}
  /\ UNCHANGED <<screen, storage, loadPc, loaded, inflight, bootId, bootTime, nextId,
                 now, source, startStorage, ops, faults, boots>>

\* bootstrap after Promise.all: the five setters and setIsReady(true)
Bootstrap ==
  /\ ~isReady
  /\ \A c \in Coll : loadPc[c] # "pending"
  /\ mem' = loaded
  /\ isReady' = TRUE
  /\ dirty' = [c \in Coll |-> TRUE]
  /\ last' = NoOp
  /\ touched' = {}
  /\ lost' = lost \cup UNION {IdsOf(mem[c]) : c \in Coll}
  /\ UNCHANGED <<screen, storage, loadPc, loaded, inflight, bootId, bootTime, nextId,
                 now, source, startStorage, ops, faults, boots>>

\* ------------------------------------------------------------- operations
\* the last operation was called on c and no render has committed since: its
\* updater is still in the queue of c's state setter
Unrendered(c) == last.op # "none" /\ last.coll = c /\ dirty[c]

\* a create that builds the next collection from the collection of the last
\* render (setClients([record, ...clients])) instead of a functional updater
Create_FromRenderedState(c, input, t) ==
  /\ Events < MaxEvents
  /\ Outstanding < MaxOutstanding
  /\ mem' = [mem EXCEPT ![c] =
               CreateOf(c, IF Unrendered(c) THEN last.before ELSE mem[c], input,
                        generateId(nextId), t)]
  /\ nextId' = nextId + 1
  /\ now' = IF c = "parts" THEN t ELSE now
  /\ dirty' = [dirty EXCEPT ![c] = TRUE]
  /\ last' = [op |-> "create", coll |-> c, input |-> input, before |-> mem[c],
              gid |-> generateId(nextId), at |-> nowIso(t), result |-> "resolved",
              batched |-> Unrendered(c)]
  /\ touched' = touched \cup {c}
  /\ ops' = ops + 1
  /\ UNCHANGED <<screen, lost, storage, loadPc, loaded, isReady, inflight, bootId, bootTime,
                 source, startStorage, faults, boots>>

Create(c, input, t) ==
  /\ Events < MaxEvents
  /\ Outstanding < MaxOutstanding
  /\ mem' = [mem EXCEPT ![c] = CreateOf(c, mem[c], input, generateId(nextId), t)]
  /\ nextId' = nextId + 1
  /\ now' = IF c = "parts" THEN t ELSE now
  /\ dirty' = [dirty EXCEPT ![c] = TRUE]
  /\ last' = [op |-> "create", coll |-> c, input |-> input, before |-> mem[c],
              gid |-> generateId(nextId), at |-> nowIso(t), result |-> "resolved",
              batched |-> Unrendered(c)]
  /\ touched' = touched \cup {c}
  /\ ops' = ops + 1
  /\ UNCHANGED <<screen, lost, storage, loadPc, loaded, isReady, inflight, bootId, bootTime,
                 source, startStorage, faults, boots>>

Update(c, id, input, t) ==
  /\ Events < MaxEvents
  /\ Outstanding < MaxOutstanding
  /\ mem' = [mem EXCEPT ![c] = UpdateOf(c, mem[c], id, input, t)]
  /\ now' = IF c = "parts" THEN t ELSE now
  /\ dirty' = [dirty EXCEPT ![c] = TRUE]
  /\ last' = [op |-> "update", coll |-> c, id |-> id, input |-> input,
              before |-> mem[c], at |-> nowIso(t), result |-> "resolved",
              batched |-> Unrendered(c)]
  /\ touched' = touched \cup {c}
  /\ ops' = ops + 1
  /\ UNCHANGED <<screen, lost, storage, loadPc, loaded, isReady, inflight, bootId, bootTime,
                 nextId, source, startStorage, faults, boots>>

\* a delete that calls persistCollection itself and awaits it: its promise is
\* still pending when the collection has changed
Delete_AwaitsWrite(c, id) ==
  /\ Events < MaxEvents
  /\ Outstanding < MaxOutstanding
  /\ mem' = [mem EXCEPT ![c] = DeleteOf(c, mem[c], id)]
  /\ inflight' = [inflight EXCEPT ![c] =
                    Append(@, [text |-> Stringify(DeleteOf(c, mem[c], id)),
                               snap |-> DeleteOf(c, mem[c], id)])]
  /\ last' = [op |-> "delete", coll |-> c, id |-> id, before |-> mem[c],
              result |-> "pending", batched |-> Unrendered(c)]
  /\ touched' = touched \cup {c}
  /\ ops' = ops + 1
  /\ UNCHANGED <<screen, lost, storage, loadPc, loaded, isReady, dirty, bootId, bootTime,
                 nextId, now, source, startStorage, faults, boots>>

\* a delete that also clears the references to the deleted team member
Delete_Cascades(c, id) ==
  /\ Events < MaxEvents
  /\ Outstanding < MaxOutstanding
  /\ mem' = [x \in Coll |->
               IF x = c THEN DeleteOf(c, mem[c], id)
               ELSE IF c = "team"
               THEN [i \in 1..Len(mem[x]) |->
                       [f \in DOMAIN mem[x][i] |->
                          IF f \in {"assignedTo", "preferredAdvisor"} /\ mem[x][i][f] = id
                          THEN UNDEF ELSE mem[x][i][f]]]
               ELSE mem[x]]
  /\ dirty' = [x \in Coll |-> dirty[x] \/ x = c \/ mem'[x] # mem[x]]
  /\ last' = [op |-> "delete", coll |-> c, id |-> id, before |-> mem[c],
              result |-> "resolved", batched |-> Unrendered(c)]
  /\ touched' = touched \cup {c}
  /\ ops' = ops + 1
  /\ UNCHANGED <<screen, lost, storage, loadPc, loaded, isReady, inflight, bootId, bootTime,
                 nextId, now, source, startStorage, faults, boots>>

Delete(c, id) ==
  /\ Events < MaxEvents
  /\ Outstanding < MaxOutstanding
  /\ mem' = [mem EXCEPT ![c] = DeleteOf(c, mem[c], id)]
  /\ dirty' = [dirty EXCEPT ![c] = TRUE]
  /\ last' = [op |-> "delete", coll |-> c, id |-> id, before |-> mem[c],
              result |-> "resolved", batched |-> Unrendered(c)]
  /\ touched' = touched \cup {c}
  /\ ops' = ops + 1
  /\ UNCHANGED <<screen, lost, storage, loadPc, loaded, isReady, inflight, bootId, bootTime,
                 nextId, now, source, startStorage, faults, boots>>

\* ----------------------------------------------------------------- screens
\* no form and no alert is shown: the lists and their buttons can be pressed
ScreenFree ==
  /\ screen.alert = NoAlert
  /\ screen.submit = NoSubmit
  /\ \A c \in Coll : ~screen.visible[c]

\* const { id, ...rest } = item
Rest(item) == [f \in (DOMAIN item) \ {"id"} |-> item[f]]

\* The 'Concluir' button of the revision shown in row i of the list, which
\* is there when that revision's status is not 'concluida':
\* updateRevision(id, { ...rest, status: 'concluida' }).  The list shows the
\* collection of the last render.
Concluir(i, t) ==
  /\ Events < MaxEvents
  /\ Outstanding < MaxOutstanding
  /\ ScreenFree
  /\ ~dirty["revisions"]
  /\ i \in 1..Len(mem["revisions"])
  /\ LET item == mem["revisions"][i]
         id == Get(item, "id")
         input == Spread(Rest(item), [status |-> "concluida"])
     IN  /\ Get(item, "status") # "concluida"
         /\ mem' = [mem EXCEPT !["revisions"] = updateRevision(@, id, input)]
         /\ last' = [op |-> "update", coll |-> "revisions", id |-> id,
                     input |-> input, before |-> mem["revisions"],
                     at |-> nowIso(t), result |-> "resolved",
                     batched |-> Unrendered("revisions"), row |-> i]
  /\ dirty' = [dirty EXCEPT !["revisions"] = TRUE]
  /\ touched' = touched \cup {"revisions"}
  /\ ops' = ops + 1
  /\ UNCHANGED <<screen, lost, storage, loadPc, loaded, isReady, inflight, bootId,
                 bootTime, nextId, now, source, startStorage, faults, boots>>

\* String.prototype.trim on the texts the forms hold
trim(s) ==
  CASE s = " Vela de ignicao " -> "Vela de ignicao"
    [] s = " Lia Prado " -> "Lia Prado"
    [] s = "Caio Reis " -> "Caio Reis"
    [] s = " Tintas Sul " -> "Tintas Sul"
    [] s = " vip " -> "vip"
    [] s = "   " -> ""
    [] OTHER -> s

\* The number a form text denotes, in tenths, as yup.number() casts it and
\* Number() converts it: the empty set for a text that is no number (NaN).
Tenths(s) ==
  CASE s = "5" -> {50}
    [] s = "05" -> {50}
    [] s = "8" -> {80}
    [] s = "18" -> {180}
    [] s = "-1" -> {-10}
    [] s = "9" -> {90}
    [] s = "4" -> {40}
    [] s = "4.0" -> {40}
    [] s = "4.3" -> {43}
    [] s = "4.8" -> {48}
    [] OTHER -> {}

\* supplier.rating.toFixed(1): one decimal, 4.0 for the rating 4
toFixed(s) ==
  IF Tenths(s) = {} THEN s
  ELSE LET n == CHOOSE x \in Tenths(s) : TRUE IN
       ToString(n \div 10) \o "." \o ToString(n % 10)

\* The form openEditModal leaves for the record edited: reset({...}) with the
\* record's values, String(part.quantity), supplier.rating.toFixed(1), and ''
\* for a reference or notes the record does not have (?? '').
EditForm(c, item) ==
  LET text(f) == IF Get(item, f) \in {UNDEF, NULL} THEN "" ELSE Get(item, f) IN
  CASE c = "parts" -> [name |-> Get(item, "name"), quantity |-> Get(item, "quantity")]
    [] c = "revisions" ->
         [clientName |-> Get(item, "clientName"), status |-> Get(item, "status"),
          assignedTo |-> text("assignedTo"), notes |-> text("notes")]
    [] c = "team" -> [name |-> Get(item, "name")]
    [] c = "clients" ->
         [name |-> Get(item, "name"), preferredAdvisor |-> text("preferredAdvisor"),
          notes |-> text("notes")]
    [] c = "suppliers" ->
         [company |-> Get(item, "company"), rating |-> toFixed(Get(item, "rating"))]

\* The forms typed on a screen: the form filled in, the form as
\* reset(defaultValues) leaves it, a form typed with surrounding blanks, and
\* (parts, suppliers) a form with a number out of range.
Typed(c) ==
  CASE c = "parts" ->
         {[name |-> "Vela de ignicao", quantity |-> "5"],
          [name |-> "", quantity |-> ""],
          [name |-> " Vela de ignicao ", quantity |-> "05"],
          [name |-> "Vela de ignicao", quantity |-> "-1"]}
    [] c = "revisions" ->
         {[clientName |-> "Lia Prado", status |-> "agendada",
           assignedTo |-> "", notes |-> ""],
          [clientName |-> "", status |-> "agendada", assignedTo |-> "", notes |-> ""],
          [clientName |-> " Lia Prado ", status |-> "agendada",
           assignedTo |-> "", notes |-> "   "]}
    [] c = "team" -> {[name |-> "Ana Lopes"], [name |-> ""], [name |-> "   "]}
    [] c = "clients" ->
         {[name |-> "Caio Reis", preferredAdvisor |-> "", notes |-> ""],
          [name |-> "", preferredAdvisor |-> "", notes |-> ""],
          [name |-> "Caio Reis ", preferredAdvisor |-> "", notes |-> " vip "]}
    [] c = "suppliers" ->
         {[company |-> "Tintas Sul", rating |-> "4.0"],
          [company |-> "", rating |-> "4.0"],
          [company |-> " Tintas Sul ", rating |-> "4.0"],
          [company |-> "Tintas Sul", rating |-> "9"]}

\* The form values the submit of a screen can carry: a form typed, or the
\* form openEditModal left for the record being edited, nothing typed.
FormValues(c) ==
  Typed(c) \cup {EditForm(c, item) : item \in screen.editing[c]}

\* Number(text), written as the store's numbers are: 5 for '05', 4 for '4.0'
Number(s) ==
  IF Tenths(s) = {} THEN "NaN"
  ELSE LET n == CHOOSE x \in Tenths(s) : TRUE IN
       IF n % 10 = 0 THEN ToString(n \div 10)
       ELSE ToString(n \div 10) \o "." \o ToString(n % 10)

\* the yup schema of the screen on the fields kept here: a required text is
\* not empty (blanks count as text), a number is one and in its range, the
\* status is one of the three
Valid(c, form) ==
  CASE c = "parts" ->
         /\ form.name # ""
         /\ Tenths(form.quantity) # {}
         /\ \A n \in Tenths(form.quantity) : n >= 0
    [] c = "revisions" ->
         /\ form.clientName # ""
         /\ form.status \in {"agendada", "em andamento", "concluida"}
    [] c = "suppliers" ->
         /\ form.company # ""
         /\ Tenths(form.rating) # {}
         /\ \A n \in Tenths(form.rating) : n >= 0 /\ n <= 50
    [] OTHER -> form.name # ""

\* the payload onSubmit builds: texts trimmed, numbers converted, notes of
\* blanks only and an empty reference become a key holding undefined
\* (notes.trim() || undefined, formValues.assignedTo ? ... : undefined)
PayloadOf(c, form) ==
  [f \in DOMAIN form |->
     CASE f \in {"name", "clientName", "company"} -> trim(form[f])
       [] f = "notes" -> IF trim(form[f]) = "" THEN UNDEF ELSE trim(form[f])
       [] f \in {"assignedTo", "preferredAdvisor"} ->
            IF form[f] = "" THEN UNDEF ELSE form[f]
       [] f \in {"quantity", "rating"} -> Number(form[f])
       [] OTHER -> form[f]]

\* what a store operation called from a screen changes in the store
StoreCall(c, next, call) ==
  /\ Events < MaxEvents
  /\ Outstanding < MaxOutstanding
  /\ mem' = [mem EXCEPT ![c] = next]
  /\ dirty' = [dirty EXCEPT ![c] = TRUE]
  /\ last' = call
  /\ touched' = touched \cup {c}
  /\ ops' = ops + 1
  /\ UNCHANGED <<lost, storage, loadPc, loaded, isReady, inflight, bootId,
                 bootTime, source, startStorage, faults, boots>>

\* setEditingX(null); reset(defaultValues); setIsModalVisible(true)
openCreateModal(c) ==
  /\ ScreenFree
  /\ screen' = [screen EXCEPT !.editing[c] = {}, !.visible[c] = TRUE,
                              !.opened[c] = "create"]
  /\ UNCHANGED <<lost, storage, loadPc, loaded, isReady, mem, dirty, inflight,
                 bootId, bootTime, nextId, now, last, touched, source,
                 startStorage, ops, faults, boots>>

\* setEditingX(item); reset({...}); setIsModalVisible(true), for the record
\* shown in row i of the list
openEditModal(c, i) ==
  /\ ScreenFree
  /\ ~dirty[c]
  /\ i \in 1..Len(mem[c])
  /\ screen' = [screen EXCEPT !.editing[c] = {mem[c][i]}, !.visible[c] = TRUE,
                              !.opened[c] = "edit"]
  /\ UNCHANGED <<lost, storage, loadPc, loaded, isReady, mem, dirty, inflight,
                 bootId, bootTime, nextId, now, last, touched, source,
                 startStorage, ops, faults, boots>>

\* the screen after setIsModalVisible(false); setEditingX(null)
Closed(c) ==
  [screen EXCEPT !.editing[c] = {}, !.visible[c] = FALSE, !.opened[c] = "none",
                 !.submit = NoSubmit]

closeModal(c) ==
  /\ screen.visible[c]
  /\ screen.alert = NoAlert
  /\ screen.submit = NoSubmit
  /\ screen' = Closed(c)
  /\ UNCHANGED <<lost, storage, loadPc, loaded, isReady, mem, dirty, inflight,
                 bootId, bootTime, nextId, now, last, touched, source,
                 startStorage, ops, faults, boots>>

\* The submit button of the form: handleSubmit(callback) takes the form
\* values and awaits the resolver; the callback has not run yet.
handleSubmit(c, form) ==
  /\ Events < MaxEvents
  /\ Outstanding < MaxOutstanding
  /\ screen.visible[c]
  /\ screen.alert = NoAlert
  /\ screen.submit = NoSubmit
  /\ screen' = [screen EXCEPT !.submit = [coll |-> c, form |-> form,
                                          pc |-> "validating"]]
  /\ UNCHANGED <<lost, storage, loadPc, loaded, isReady, mem, dirty, inflight,
                 bootId, bootTime, nextId, now, last, touched, source,
                 startStorage, ops, faults, boots>>

\* onSubmit that calls create whether or not a record is being edited
onSubmit_AlwaysCreates(c, t) ==
  /\ screen.submit # NoSubmit
  /\ screen.submit.coll = c
  /\ screen.submit.pc = "validating"
  /\ LET form == screen.submit.form IN
     IF ~Valid(c, form)
     THEN /\ screen' = [screen EXCEPT !.submit = NoSubmit]
          /\ UNCHANGED <<lost, storage, loadPc, loaded, isReady, mem, dirty,
                         inflight, bootId, bootTime, nextId, now, last, touched,
                         source, startStorage, ops, faults, boots>>
     ELSE /\ StoreCall(c, CreateOf(c, mem[c], PayloadOf(c, form), generateId(nextId), t),
                       [op |-> "create", coll |-> c, input |-> PayloadOf(c, form),
                        before |-> mem[c], gid |-> generateId(nextId),
                        at |-> nowIso(t), result |-> "resolved",
                        batched |-> Unrendered(c), via |-> "submit"])
          /\ nextId' = nextId + 1
          /\ now' = IF c = "parts" THEN t ELSE now
          /\ screen' = [screen EXCEPT !.submit.pc = "called"]

\* The resolver settles and the callback of handleSubmit runs up to its
\* await: values the schema rejects do not reach it; otherwise it calls
\* update when a record is being edited and create when none is, and waits
\* for the promise of that call.  The form is still shown.
onSubmit(c, t) ==
  /\ screen.submit # NoSubmit
  /\ screen.submit.coll = c
  /\ screen.submit.pc = "validating"
  /\ LET form == screen.submit.form IN
     IF ~Valid(c, form)
     THEN /\ screen' = [screen EXCEPT !.submit = NoSubmit]
          /\ UNCHANGED <<lost, storage, loadPc, loaded, isReady, mem, dirty,
                         inflight, bootId, bootTime, nextId, now, last, touched,
                         source, startStorage, ops, faults, boots>>
     ELSE LET payload == PayloadOf(c, form) IN
          /\ IF screen.editing[c] # {}
             THEN LET item == CHOOSE r \in screen.editing[c] : TRUE
                      id == Get(item, "id")
                      input == IF c = "parts"
                               THEN Spread(payload, [updatedAt |-> Get(item, "updatedAt")])
                               ELSE payload
                  IN  /\ StoreCall(c, UpdateOf(c, mem[c], id, input, t),
                                   [op |-> "update", coll |-> c, id |-> id,
                                    input |-> input, before |-> mem[c],
                                    at |-> nowIso(t), result |-> "resolved",
                                    batched |-> Unrendered(c), via |-> "submit"])
                      /\ nextId' = nextId
             ELSE /\ StoreCall(c, CreateOf(c, mem[c], payload, generateId(nextId), t),
                               [op |-> "create", coll |-> c, input |-> payload,
                                before |-> mem[c], gid |-> generateId(nextId),
                                at |-> nowIso(t), result |-> "resolved",
                                batched |-> Unrendered(c), via |-> "submit"])
                  /\ nextId' = nextId + 1
          /\ now' = IF c = "parts" THEN t ELSE now
          /\ screen' = [screen EXCEPT !.submit.pc = "called"]

\* the callback resumes after its await and calls closeModal()
onSubmitResumes(c) ==
  /\ screen.submit # NoSubmit
  /\ screen.submit.coll = c
  /\ screen.submit.pc = "called"
  /\ screen' = Closed(c)
  /\ UNCHANGED <<lost, storage, loadPc, loaded, isReady, mem, dirty, inflight,
                 bootId, bootTime, nextId, now, last, touched, source,
                 startStorage, ops, faults, boots>>

\* the delete control of the record shown in row i: the revisions screen
\* calls deleteRevision there and then, the other screens show an alert
confirmDelete(c, i) ==
  /\ ScreenFree
  /\ ~dirty[c]
  /\ i \in 1..Len(mem[c])
  /\ LET id == Get(mem[c][i], "id") IN
       IF c = "revisions"
       THEN /\ StoreCall(c, deleteRevision(mem[c], id),
                         [op |-> "delete", coll |-> c, id |-> id, before |-> mem[c],
                          result |-> "resolved", batched |-> Unrendered(c),
                          via |-> "press"])
            /\ UNCHANGED <<screen, nextId, now>>
       ELSE /\ screen' = [screen EXCEPT !.alert = [coll |-> c, id |-> id]]
            /\ UNCHANGED <<lost, storage, loadPc, loaded, isReady, mem, dirty,
                           inflight, bootId, bootTime, nextId, now, last, touched,
                           source, startStorage, ops, faults, boots>>

\* the destructive button of the alert: onPress: () => deleteX(item.id)
AlertRemove ==
  /\ screen.alert # NoAlert
  /\ LET c == screen.alert.coll
         id == screen.alert.id
     IN  StoreCall(c, DeleteOf(c, mem[c], id),
                   [op |-> "delete", coll |-> c, id |-> id, before |-> mem[c],
                    result |-> "resolved", batched |-> Unrendered(c),
                    via |-> "alert"])
  /\ screen' = [screen EXCEPT !.alert = NoAlert]
  /\ UNCHANGED <<nextId, now>>

\* the cancel button of the alert (style: 'cancel', no onPress)
AlertCancel ==
  /\ screen.alert # NoAlert
  /\ screen' = [screen EXCEPT !.alert = NoAlert]
  /\ UNCHANGED <<lost, storage, loadPc, loaded, isReady, mem, dirty, inflight,
                 bootId, bootTime, nextId, now, last, touched, source,
                 startStorage, ops, faults, boots>>

\* ------------------------------------------------------------ persistence
\* the persist effects without their test of isReady
Commit_IgnoresReady ==
  /\ \E c \in Coll : dirty[c]
  /\ inflight' = [c \in Coll |->
                    IF dirty[c]
                    THEN Append(inflight[c],
                                [text |-> Stringify(mem[c]), snap |-> mem[c]])
                    ELSE inflight[c]]
  /\ dirty' = [c \in Coll |-> FALSE]
  /\ UNCHANGED <<screen, lost, storage, loadPc, loaded, isReady, mem, bootId, bootTime,
                 nextId, now, last, touched, source, startStorage, ops, faults,
                 boots>>

\* the persist effects with the collection missing from their dependencies
\* ([isReady] alone): they run for the change of isReady only
Commit_DependsOnReadyOnly ==
  /\ \E c \in Coll : dirty[c]
  /\ inflight' = [c \in Coll |->
                    IF dirty[c] /\ isReady /\ c \notin touched
                    THEN Append(inflight[c],
                                [text |-> Stringify(mem[c]), snap |-> mem[c]])
                    ELSE inflight[c]]
  /\ dirty' = [c \in Coll |-> FALSE]
  /\ UNCHANGED <<screen, lost, storage, loadPc, loaded, isReady, mem, bootId, bootTime,
                 nextId, now, last, touched, source, startStorage, ops, faults,
                 boots>>

\* The render after a state change commits and the persist effects whose
\* dependencies changed run: each calls persistCollection when isReady.
Commit ==
  /\ \E c \in Coll : dirty[c]
  /\ inflight' = [c \in Coll |->
                    IF dirty[c] /\ isReady
                    THEN Append(inflight[c],
                                [text |-> Stringify(mem[c]), snap |-> mem[c]])
                    ELSE inflight[c]]
  /\ dirty' = [c \in Coll |-> FALSE]
  /\ UNCHANGED <<screen, lost, storage, loadPc, loaded, isReady, mem, bootId, bootTime,
                 nextId, now, last, touched, source, startStorage, ops, faults,
                 boots>>

Without(s, i) == SubSeq(s, 1, i - 1) \o SubSeq(s, i + 1, Len(s))

\* the persist effect of a collection calling persistCollection with the key
\* of the team collection
PersistOk_TeamKey(c, i) ==
  /\ i \in 1..Len(inflight[c])
  /\ storage' = [storage EXCEPT ![STORAGE_KEYS["team"]] = inflight[c][i].text]
  /\ source' = [source EXCEPT ![STORAGE_KEYS[c]] = inflight[c][i].snap]
  /\ inflight' = [inflight EXCEPT ![c] = Without(inflight[c], i)]
  /\ UNCHANGED <<screen, lost, loadPc, loaded, isReady, mem, dirty, bootId, bootTime, nextId,
                 now, last, touched, startStorage, ops, faults, boots>>

\* persistCollection storing the collection as it is when the write settles
\* (read from a ref) instead of the value it was called with
PersistOk_WritesCurrent(c, i) ==
  /\ i \in 1..Len(inflight[c])
  /\ storage' = [storage EXCEPT ![STORAGE_KEYS[c]] = Stringify(mem[c])]
  /\ source' = [source EXCEPT ![STORAGE_KEYS[c]] = mem[c]]
  /\ inflight' = [inflight EXCEPT ![c] = Without(inflight[c], i)]
  /\ UNCHANGED <<screen, lost, loadPc, loaded, isReady, mem, dirty, bootId, bootTime, nextId,
                 now, last, touched, startStorage, ops, faults, boots>>

\* persistCollection: a setItem resolves
PersistOk(c, i) ==
  /\ i \in 1..Len(inflight[c])
  /\ storage' = [storage EXCEPT ![STORAGE_KEYS[c]] = inflight[c][i].text]
  /\ source' = [source EXCEPT ![STORAGE_KEYS[c]] = inflight[c][i].snap]
  /\ inflight' = [inflight EXCEPT ![c] = Without(inflight[c], i)]
  /\ UNCHANGED <<screen, lost, loadPc, loaded, isReady, mem, dirty, bootId, bootTime, nextId,
                 now, last, touched, startStorage, ops, faults, boots>>

\* persistCollection whose catch calls setItem again with the same text
PersistFail_Retries(c, i) ==
  /\ i \in 1..Len(inflight[c])
  /\ Events < MaxEvents
  /\ faults' = faults + 1
  /\ inflight' = [inflight EXCEPT ![c] = Append(Without(inflight[c], i), inflight[c][i])]
  /\ UNCHANGED <<screen, lost, storage, loadPc, loaded, isReady, mem, dirty, bootId,
                 bootTime, nextId, now, last, touched, source, startStorage,
                 ops, boots>>

\* persistCollection: a setItem rejects, the catch logs it
PersistFail(c, i) ==
  /\ i \in 1..Len(inflight[c])
  /\ Events < MaxEvents
  /\ faults' = faults + 1
  /\ inflight' = [inflight EXCEPT ![c] = Without(inflight[c], i)]
  /\ UNCHANGED <<screen, lost, storage, loadPc, loaded, isReady, mem, dirty, bootId,
                 bootTime, nextId, now, last, touched, source, startStorage,
                 ops, boots>>

\* The application is closed and opened again: a new process evaluates the
\* module (new seed constants), mounts DataProvider and runs bootstrap.
Restart(t) ==
  /\ Events < MaxEvents
  /\ boots' = boots + 1
  /\ loadPc' = [c \in Coll |-> "pending"]
  /\ loaded' = [c \in Coll |-> <<>>]
  /\ isReady' = FALSE
  /\ mem' = [c \in Coll |-> <<>>]
  /\ dirty' = [c \in Coll |-> FALSE]
  /\ inflight' = [c \in Coll |-> <<>>]
  /\ bootId' = nextId
  /\ nextId' = nextId + SeedIds
  /\ bootTime' = t
  /\ now' = t
  /\ last' = NoOp
  /\ touched' = {}
  /\ startStorage' = storage
  /\ screen' = Idle
  /\ UNCHANGED <<lost, storage, source, ops, faults>>

Clock == now..MaxTime

Next ==
  \/ \E c \in Coll : Load(c)
  \/ \E c \in Coll : LoadFail(c)
  \/ Bootstrap
  \/ \E c \in Coll, t \in Clock : \E input \in Inputs(c) : Create(c, input, t)
  \/ \E c \in Coll, t \in Clock : \E id \in Targets(c), input \in Inputs(c) :
        Update(c, id, input, t)
  \/ \E c \in Coll : \E id \in Targets(c) : Delete(c, id)
  \/ Commit
  \/ \E c \in Coll : \E i \in 1..Len(inflight[c]) : PersistOk(c, i)
  \/ \E c \in Coll : \E i \in 1..Len(inflight[c]) : PersistFail(c, i)
  \/ \E t \in Clock : Restart(t)
  \/ \E i \in 1..MaxTargets, t \in Clock : Concluir(i, t)

Spec == Init /\ [][Next]_vars

\* --------------------------------------------- storage calls that settle
\* Every getItem / setItem of a load settles, by resolving or by rejecting,
\* and the function awaiting it goes on.
Settling ==
  /\ \A c \in Coll : WF_vars(Load(c) \/ LoadFail(c))
  /\ WF_vars(Bootstrap)

SpecSettling == Init /\ [][Next]_vars /\ Settling

\* ------------------------------------------------- the store under the screens
\* The store called by the five entity screens only, every storage call
\* resolving and the writes of a key settling in the order they were issued.
Rows == 1..MaxTargets

NextScreens ==
  \/ \E c \in Coll : Load(c)
  \/ Bootstrap
  \/ Commit
  \/ \E c \in Coll : PersistOk(c, 1)
  \/ \E c \in Coll : openCreateModal(c)
  \/ \E c \in Coll, i \in Rows : openEditModal(c, i)
  \/ \E c \in Coll : closeModal(c)
  \/ \E c \in Coll : \E form \in FormValues(c) : handleSubmit(c, form)
  \/ \E c \in Coll, t \in Clock : onSubmit(c, t)
  \/ \E c \in Coll : onSubmitResumes(c)
  \/ \E c \in Coll, i \in Rows : confirmDelete(c, i)
  \/ AlertRemove
  \/ AlertCancel
  \/ \E i \in Rows, t \in Clock : Concluir(i, t)

SpecScreens == Init /\ [][NextScreens]_vars

\* ------------------------------------------------- writes settling in order
\* persistCollection's setItem calls of one key resolving in the order they
\* were issued, none rejected
PersistInOrder(c) == PersistOk(c, 1)

NextInOrder ==
  \/ \E c \in Coll : Load(c)
  \/ \E c \in Coll : LoadFail(c)
  \/ Bootstrap
  \/ \E c \in Coll, t \in Clock : \E input \in Inputs(c) : Create(c, input, t)
  \/ \E c \in Coll, t \in Clock : \E id \in Targets(c), input \in Inputs(c) :
        Update(c, id, input, t)
  \/ \E c \in Coll : \E id \in Targets(c) : Delete(c, id)
  \/ Commit
  \/ \E c \in Coll : PersistInOrder(c)
  \/ \E t \in Clock : Restart(t)

\* The event loop runs every callback that is ready: a storage call that
\* settles resumes its awaiting function, a scheduled render commits and runs
\* its effects.  The user is not obliged to call anything.
Scheduling ==
  /\ \A c \in Coll : WF_vars(Load(c))
  /\ WF_vars(Bootstrap)
  /\ WF_vars(Commit)
  /\ \A c \in Coll : WF_vars(PersistInOrder(c))

SpecInOrder == Init /\ [][NextInOrder]_vars /\ Scheduling

\* ==================================================================== claims
Fields ==
  {"id", "name", "quantity", "updatedAt", "clientName", "status", "assignedTo",
   "notes", "preferredAdvisor", "company", "rating"}

\* the optional fields of the entity types (assignedTo?, notes?, preferredAdvisor?)
Optional == {"assignedTo", "notes", "preferredAdvisor"}

\* the fields the store writes itself in collection c
StoreFields(c) == IF c = "parts" THEN {"id", "updatedAt"} ELSE {"id"}

IdSeq(s) == [i \in 1..Len(s) |-> Get(s[i], "id")]

Hits(s, id) == {i \in 1..Len(s) : Get(s[i], "id") = id}

Created == last.op = "create"
Updated == last.op = "update"
Deleted == last.op = "delete"

\* the collection as it is now, after the last operation called on it
After == mem[last.coll]

\* ---------------------------------------------------------------------- C1
\* C1: create(x) on a collection holding S yields <r> followed by S, where r
\* carries the identity generated in the call (for a part also the time of
\* the call as updatedAt) and every other field of r equals x's.
C1_CreatePrepends ==
  Created =>
    /\ Len(After) = Len(last.before) + 1
    /\ Tail(After) = last.before
    /\ Get(Head(After), "id") = last.gid
    /\ last.coll = "parts" => Get(Head(After), "updatedAt") = last.at
    /\ \A f \in Fields \ StoreFields(last.coll) :
         Get(Head(After), f) = Get(last.input, f)

\* ---------------------------------------------------------------------- C2
\* C2 as stated: after update(id, y) on an existing record, an optional field
\* that y does not carry is not carried by the resulting record either.
C2_UpdateReplacesWholesale ==
  Updated =>
    \A i \in Hits(last.before, last.id) :
      /\ Get(After[i], "id") = last.id
      /\ \A f \in Fields \ StoreFields(last.coll) :
           Get(After[i], f) = Get(last.input, f)

\* C2 amended: update(id, y) on an existing record merges y over it: a field
\* that y carries (also one carried as undefined) takes y's value, a field
\* that y does not carry keeps the old record's value, the identity stays id.
C2_UpdateMerges ==
  Updated =>
    \A i \in Hits(last.before, last.id) :
      /\ Get(After[i], "id") = last.id
      /\ \A f \in Fields \ StoreFields(last.coll) :
           Get(After[i], f) = IF f \in DOMAIN last.input
                              THEN last.input[f]
                              ELSE Get(last.before[i], f)

\* an update hit a record holding notes with an input that carries no notes key
C2_Witness ==
  /\ Updated
  /\ \E i \in Hits(last.before, last.id) :
       /\ "notes" \notin DOMAIN last.input
       /\ Get(last.before[i], "notes") # UNDEF
       /\ Get(After[i], "status") = "concluida"

\* ---------------------------------------------------------------------- C3
\* C3: an update leaves the sequence of identities of the collection as it
\* was, also when the input carries an id of its own; a create removes no
\* identity and a delete adds none.
C3_IdentitiesImmutable ==
  /\ Updated => IdSeq(After) = IdSeq(last.before)
  /\ Created => IdSeq(Tail(After)) = IdSeq(last.before)
  /\ Deleted => IdsOf(After) \subseteq IdsOf(last.before)

\* an update hit a record with an input that carries another record's id
C3_Witness ==
  /\ Updated
  /\ Hits(last.before, last.id) # {}
  /\ "id" \in DOMAIN last.input
  /\ last.input["id"] # last.id

\* ---------------------------------------------------------------------- C4
\* C4: no two records of one collection have the same identity.
C4_UniqueIds ==
  \A c \in Coll : \A i, j \in 1..Len(mem[c]) :
    Get(mem[c][i], "id") = Get(mem[c][j], "id") => i = j

\* ---------------------------------------------------------------------- C5
\* C5: delete(id) on a collection with exactly one record of that identity
\* removes that record and nothing else, keeping the order; delete(id) with
\* an identity no record has leaves the collection as it was.
C5_DeleteRemovesOne ==
  Deleted =>
    /\ \A i \in Hits(last.before, last.id) :
         Cardinality(Hits(last.before, last.id)) = 1 =>
           /\ Len(After) = Len(last.before) - 1
           /\ last.id \notin IdsOf(After)
           /\ After = SubSeq(last.before, 1, i - 1)
                        \o SubSeq(last.before, i + 1, Len(last.before))
    /\ Hits(last.before, last.id) = {} => After = last.before

\* a delete removed the one record that had the identity, others remaining
C5_Witness ==
  /\ Deleted
  /\ Cardinality(Hits(last.before, last.id)) = 1
  /\ Len(After) = Len(last.before) - 1
  /\ Len(After) >= 1

\* ---------------------------------------------------------------------- C6
\* C6: update(id, y) with an identity no record has leaves the collection as
\* it was and its promise resolves.
C6_UpdateMissingIsNoOp ==
  (Updated /\ Hits(last.before, last.id) = {}) =>
    /\ After = last.before
    /\ last.result = "resolved"

\* an update was called on a non-empty collection with an identity it lacks
C6_Witness ==
  /\ Updated
  /\ Hits(last.before, last.id) = {}
  /\ Len(last.before) >= 2
  /\ isReady

\* ---------------------------------------------------------------------- C7
\* the store has become ready and no operation was called since
JustReady == isReady /\ last = NoOp /\ touched = {}

\* C7 as stated: for a key absent at startup, once ready the collection is
\* the seed list and storage holds that list under the key.
C7_SeedOnEmpty ==
  JustReady =>
    \A c \in Coll :
      startStorage[STORAGE_KEYS[c]] = ABSENT =>
        /\ mem[c] = Defaults(c)
        /\ storage[STORAGE_KEYS[c]] = Stringify(Defaults(c))

\* C7 amended: for a key absent at startup, once ready the collection is the
\* seed list, and storage holds that list under the key unless a storage
\* call of the load was rejected, in which case the key is still absent or
\* holds the seed list written by the persist effect; on empty storage the
\* team is the two seed members.
C7_SeedOnEmptyUnlessRejected ==
  JustReady =>
    \A c \in Coll :
      startStorage[STORAGE_KEYS[c]] = ABSENT =>
        /\ mem[c] = Defaults(c)
        /\ c = "team" =>
             /\ Len(mem[c]) = 2
             /\ mem[c][1].name = "Renato Albuquerque"
             /\ mem[c][2].name = "Isabela Monteiro"
        /\ loadPc[c] = "done" =>
             storage[STORAGE_KEYS[c]] = Stringify(Defaults(c))
        /\ loadPc[c] = "failed" =>
             storage[STORAGE_KEYS[c]] \in {ABSENT, Stringify(Defaults(c))}

\* ready on storage that was empty throughout, every key now seeded
C7_Witness ==
  /\ JustReady
  /\ \A k \in Keys : startStorage[k] = ABSENT
  /\ \A c \in Coll : loadPc[c] = "done" /\ storage[STORAGE_KEYS[c]] = Stringify(mem[c])
  /\ mem["team"][1].name = "Renato Albuquerque"

\* ---------------------------------------------------------------------- C8
\* the step in which bootstrap sets the collections and isReady
BecomesReady == ~isReady /\ isReady'

\* the key of c held a persisted collection when the process started
PresentAtStart(c) == startStorage[STORAGE_KEYS[c]].kind = "json"

SameFields(a, b) ==
  /\ Len(a) = Len(b)
  /\ \A i \in 1..Len(a) : \A f \in Fields : Get(a[i], f) = Get(b[i], f)

\* what a record reads as after JSON.parse(JSON.stringify(record))
ReadBack(v) == IF v = INF THEN NULL ELSE v

SameFieldsReadBack(a, b) ==
  /\ Len(a) = Len(b)
  /\ \A i \in 1..Len(a) : \A f \in Fields : Get(a[i], f) = ReadBack(Get(b[i], f))

\* C8 as stated: when the store is started on a key that holds the
\* persisted collection S, the in-memory collection after ready equals S
\* field for field and the seed list is not used.
C8_RoundTrip ==
  [][BecomesReady =>
       \A c \in Coll :
         PresentAtStart(c) =>
           /\ SameFields(mem'[c], source[STORAGE_KEYS[c]])
           /\ mem'[c] # Defaults(c)]_vars

\* C8 amended: when the store is started on a key that holds the persisted
\* collection S, then if the read of the key resolves the in-memory
\* collection after ready has the records of S in the same order, each field
\* reading as in S except that a non-finite number of S reads as null, the
\* seed list is not used and the key is not rewritten by the load; if the
\* read of the key is rejected the in-memory collection after ready is the
\* seed list, and the key still holds S when the store becomes ready.
C8_RoundTripOfJsonValues ==
  [][BecomesReady =>
       \A c \in Coll :
         PresentAtStart(c) =>
           /\ loadPc[c] \in {"done", "failed"}
           /\ loadPc[c] = "done" =>
                /\ SameFieldsReadBack(mem'[c], source[STORAGE_KEYS[c]])
                /\ mem'[c] # Defaults(c)
           /\ loadPc[c] = "failed" => mem'[c] = Defaults(c)
           /\ storage[STORAGE_KEYS[c]] = startStorage[STORAGE_KEYS[c]]
           /\ storage'[STORAGE_KEYS[c]] = startStorage[STORAGE_KEYS[c]]]_vars

\* ready after a restart, with a team member created in the earlier run
\* read back from storage
C8_Witness ==
  /\ JustReady
  /\ boots >= 1
  /\ PresentAtStart("team")
  /\ loadPc["team"] = "done"
  /\ Len(mem["team"]) = 3
  /\ mem["team"][1].name = "Ana Lopes"

\* ---------------------------------------------------------------------- C9
\* C9 as stated: after a read or parse failure the collection is the seed
\* list and the key keeps its pre-startup value unless an operation is called
\* on that collection.
C9_FallbackInMemoryOnly ==
  \A c \in Coll :
    (loadPc[c] = "failed" /\ c \notin touched) =>
      /\ loaded[c] = Defaults(c)
      /\ isReady => mem[c] = Defaults(c)
      /\ storage[STORAGE_KEYS[c]] = startStorage[STORAGE_KEYS[c]]

\* C9 amended: after a read or parse failure the collection is the seed list
\* and the load itself leaves the key as it was; the key keeps its
\* pre-startup value until the store is ready, and from then on, with no
\* operation called on that collection, it holds either that value or the
\* seed list, which the persist effect writes when the store becomes ready.
C9_FallbackThenPersisted ==
  \A c \in Coll :
    (loadPc[c] = "failed" /\ c \notin touched) =>
      /\ loaded[c] = Defaults(c)
      /\ isReady => mem[c] = Defaults(c)
      /\ ~isReady => storage[STORAGE_KEYS[c]] = startStorage[STORAGE_KEYS[c]]
      /\ isReady =>
           storage[STORAGE_KEYS[c]]
             \in {startStorage[STORAGE_KEYS[c]], Stringify(Defaults(c))}

\* a key whose text did not parse now holds the seed list, no operation called
C9_Witness ==
  /\ JustReady
  /\ loadPc["parts"] = "failed"
  /\ startStorage[STORAGE_KEYS["parts"]] = CORRUPT
  /\ storage[STORAGE_KEYS["parts"]] = Stringify(Defaults("parts"))

\* --------------------------------------------------------------------- C10
\* C10: isReady is true only if all five loads have resolved, the
\* collections hold their loaded values when it becomes true, and it is
\* false while any load is pending.
C10_ReadinessGate ==
  /\ isReady => \A c \in Coll : loadPc[c] # "pending"
  /\ JustReady => mem = loaded

\* one load is still pending, the other four have finished, the store is not ready
C10_Witness ==
  /\ ~isReady
  /\ Cardinality({c \in Coll : loadPc[c] = "pending"}) = 1

\* --------------------------------------------------------------------- C11
\* an operation is called in this step
Called == ops' = ops + 1

\* a render commits and runs the persist effects in this step
Commits ==
  /\ \E c \in Coll : dirty[c]
  /\ \A c \in Coll : ~dirty'[c]
  /\ boots' = boots

Last(s) == s[Len(s)]

\* every key holds the text of the in-memory collection, the store ready
Settled ==
  /\ isReady
  /\ \A c \in Coll : storage[STORAGE_KEYS[c]] = Stringify(mem[c])

\* C11: an operation called when the store is ready marks its collection for
\* the persist effect, and the effect issues a write of the whole collection
\* as it then is; when no write is rejected and the writes of a key settle in
\* the order they were issued, every key eventually holds the text of the
\* in-memory collection and keeps holding it.
C11_EventuallyPersisted ==
  /\ [][(Called /\ isReady) => dirty'[last'.coll]]_vars
  /\ [][(Commits /\ isReady) =>
          \A c \in Coll :
            dirty[c] =>
              /\ Len(inflight'[c]) = Len(inflight[c]) + 1
              /\ Last(inflight'[c]).text = Stringify(mem[c])]_vars
  /\ <>[]Settled

\* a created record has reached storage and nothing is left to write
C11_Witness ==
  /\ Settled
  /\ Created
  /\ Len(After) = Len(last.before) + 1
  /\ \A c \in Coll : inflight[c] = <<>> /\ ~dirty[c]
  /\ Len(Parse(storage[STORAGE_KEYS[last.coll]])) = Len(After)

\* --------------------------------------------------------------------- C12
\* a write of c settles without being rejected in this step
WriteLands(c) ==
  /\ Len(inflight'[c]) < Len(inflight[c])
  /\ faults' = faults
  /\ boots' = boots

NothingPending == \A c \in Coll : inflight[c] = <<>> /\ ~dirty[c]

\* C12: whichever write of a collection in flight settles, whatever its place
\* in the order of issue, the key then holds the snapshot that write was
\* issued with: the write settling last decides what the key holds.
C12_LastCompletedWins ==
  [][\A c \in Coll :
       WriteLands(c) =>
         \E i \in 1..Len(inflight[c]) :
           /\ inflight'[c] = Without(inflight[c], i)
           /\ storage'[STORAGE_KEYS[c]] = inflight[c][i].text
           /\ source'[STORAGE_KEYS[c]] = inflight[c][i].snap]_vars

\* no storage call was ever rejected, nothing is in flight or waiting for a
\* render, and the key of the collection last operated on holds the snapshot
\* taken before that operation, not the collection in memory
C12_Witness ==
  /\ isReady
  /\ faults = 0
  /\ NothingPending
  /\ last.op = "create"
  /\ storage[STORAGE_KEYS[last.coll]] # Stringify(After)
  /\ source[STORAGE_KEYS[last.coll]] = last.before
  /\ After # last.before

\* --------------------------------------------------------------------- C13
\* a write is rejected in this step
WriteFails == faults' = faults + 1 /\ loadPc' = loadPc

\* C13: a rejected write changes neither the collections nor storage, is
\* taken out of the writes in flight with no other write issued for it, and
\* leaves the result of the operations as it was; a later write of the
\* collection that succeeds leaves its own snapshot under the key.
C13_FailedWriteDropped ==
  /\ [][WriteFails =>
          /\ mem' = mem
          /\ storage' = storage
          /\ dirty' = dirty
          /\ isReady' = isReady
          /\ last' = last
          /\ \E c \in Coll : \E i \in 1..Len(inflight[c]) :
               inflight' = [inflight EXCEPT ![c] = Without(inflight[c], i)]]_vars
  /\ [][\A c \in Coll :
          WriteLands(c) =>
            \E i \in 1..Len(inflight[c]) :
              storage'[STORAGE_KEYS[c]] = Stringify(inflight[c][i].snap)]_vars

\* every load succeeded on empty storage, the write of a created record was
\* rejected, nothing more is pending and the key still holds the seed list
C13_Witness ==
  /\ isReady
  /\ boots = 0
  /\ \A c \in Coll : loadPc[c] = "done" /\ startStorage[STORAGE_KEYS[c]] = ABSENT
  /\ faults = 1
  /\ NothingPending
  /\ last.op = "create"
  /\ last.result = "resolved"
  /\ Len(After) = Len(last.before) + 1
  /\ storage[STORAGE_KEYS[last.coll]] = Stringify(Defaults(last.coll))

\* --------------------------------------------------------------------- C14
\* C14: an operation called on a collection before the render of the
\* operation called just before it on the same collection is applied to the
\* result of that operation: a create puts its record in front of it, a
\* delete filters it, an update maps it; after two creates the collection is
\* the second record, the first record, then the collection as it was.
C14_BackToBackBothApplied ==
  [][(Called /\ Unrendered(last'.coll)) =>
       LET c == last'.coll
           S1 == mem[c]
           S2 == mem'[c]
           id == Get(last', "id")
       IN  /\ last'.op = "create" => Tail(S2) = S1
           /\ last'.op = "delete" =>
                S2 = SelectSeq(S1, LAMBDA r : Get(r, "id") # id)
           /\ last'.op = "update" =>
                /\ Len(S2) = Len(S1)
                /\ \A i \in 1..Len(S1) :
                     IF Get(S1[i], "id") = id
                     THEN \A f \in (DOMAIN last'.input) \ StoreFields(c) :
                            S2[i][f] = last'.input[f]
                     ELSE S2[i] = S1[i]
           /\ (last.op = "create" /\ last'.op = "create") =>
                /\ Len(S2) = Len(last.before) + 2
                /\ S2[2] = Head(S1)
                /\ SubSeq(S2, 3, Len(S2)) = last.before]_vars

\* two clients created with no render between the calls: the second-created
\* record first, the first-created record second
C14_Witness ==
  /\ isReady
  /\ Created
  /\ last.coll = "clients"
  /\ last.batched
  /\ ops = 2
  /\ Len(After) = Len(Defaults("clients")) + 2
  /\ Get(After[1], "id") = generateId(nextId - 1)
  /\ Get(After[2], "id") = generateId(nextId - 2)
  /\ SubSeq(After, 3, Len(After)) = Defaults("clients")

\* --------------------------------------------------------------------- C15
\* C15: in the step in which an operation is called its promise is resolved
\* and the change is in the in-memory collection, while storage and the writes
\* in flight are as they were: the write is left to the persist effect of
\* the next render; a write settling later, accepted or rejected, does not
\* change the result of the operation.
C15_CompletionBeforePersist ==
  /\ [][Called =>
          LET c == last'.coll IN
            /\ last'.result = "resolved"
            /\ last'.op = "create" => Len(mem'[c]) = Len(mem[c]) + 1
            /\ last'.op = "delete" => last'.id \notin IdsOf(mem'[c])
            /\ last'.op = "update" =>
                 \A i \in Hits(mem[c], last'.id) :
                   \A f \in (DOMAIN last'.input) \ StoreFields(c) :
                     mem'[c][i][f] = last'.input[f]
            /\ storage' = storage
            /\ inflight' = inflight
            /\ dirty'[c]]_vars
  /\ [][(WriteFails \/ \E c \in Coll : WriteLands(c)) => last' = last]_vars

\* an update of an existing record has resolved and is in memory, its write
\* not yet issued: the key holds the collection as it was before
C15_Witness ==
  /\ isReady
  /\ Updated
  /\ last.result = "resolved"
  /\ Hits(last.before, last.id) # {}
  /\ After # last.before
  /\ dirty[last.coll]
  /\ inflight[last.coll] = <<>>
  /\ storage[STORAGE_KEYS[last.coll]] = Stringify(last.before)

\* --------------------------------------------------------------------- C16
\* C16: whatever reads, parses and writes fail, no promise of the store is
\* rejected: every load that has settled resolved to a collection (the seed
\* list after a failure), every operation called has resolved, and the store
\* is ready or can become ready as soon as the five loads have settled.
C16_NeverReportsError ==
  /\ \A c \in Coll :
       /\ loadPc[c] \in {"pending", "done", "failed"}
       /\ loadPc[c] = "failed" => loaded[c] = Defaults(c)
  /\ last.op # "none" => last.result = "resolved"
  /\ (\A c \in Coll : loadPc[c] # "pending") => (isReady \/ ENABLED Bootstrap)

\* a key did not parse at startup, the store is ready, an operation on a
\* collection whose load had failed has resolved
C16_Witness ==
  /\ isReady
  /\ faults >= 1
  /\ last.op # "none"
  /\ loadPc[last.coll] = "failed"
  /\ last.result = "resolved"
  /\ After # last.before

\* --------------------------------------------------------------------- C17
\* C17: an operation called on one collection leaves the other four
\* in-memory collections as they were; in particular deleting a team member
\* leaves the revisions and clients that refer to it unchanged.
C17_NoCrossCollectionEffect ==
  [][Called => \A c \in Coll \ {last'.coll} : mem'[c] = mem[c]]_vars

\* a team member was deleted and a revision and a client still refer to it
C17_Witness ==
  /\ isReady
  /\ Deleted
  /\ last.coll = "team"
  /\ Hits(last.before, last.id) # {}
  /\ last.id \notin IdsOf(mem["team"])
  /\ \E i \in 1..Len(mem["revisions"]) : Get(mem["revisions"][i], "assignedTo") = last.id
  /\ \E i \in 1..Len(mem["clients"]) : Get(mem["clients"][i], "preferredAdvisor") = last.id

\* --------------------------------------------------------------------- C18
\* C18: after createPart the new record's updatedAt, and after updatePart the
\* updated record's updatedAt, is the time of that call, also when the input
\* carries an updatedAt of its own.
C18_UpdatedAtSetByStore ==
  (last.op # "none" /\ last.coll = "parts") =>
    /\ Created => Get(Head(After), "updatedAt") = last.at
    /\ Updated =>
         \A i \in Hits(last.before, last.id) : Get(After[i], "updatedAt") = last.at

\* --------------------------------------------------------------------- C19
\* C19 as stated: while the store is not ready all five collections are empty.
C19_EmptyBeforeReady ==
  ~isReady => \A c \in Coll : mem[c] = <<>>

\* C19 amended: while the store is not ready, a collection no operation was
\* called on is empty, and a collection stops being empty before ready only
\* by a create called on it.
C19_EmptyUntilCreated ==
  /\ [](~isReady => \A c \in Coll : c \notin touched => mem[c] = <<>>)
  /\ [][\A c \in Coll :
          (~isReady' /\ mem[c] = <<>> /\ mem'[c] # <<>>) =>
            (Called /\ last'.op = "create" /\ last'.coll = c)]_vars

\* not ready: a collection holds the record created on it, another one whose
\* load has finished is still empty
C19_Witness ==
  /\ ~isReady
  /\ Created
  /\ Len(After) = 1
  /\ \E c \in Coll \ touched : loadPc[c] = "done" /\ mem[c] = <<>>

\* --------------------------------------------------------------------- C20
\* C20: a delete called with the collection and identity of the delete called
\* just before it leaves the collection as that delete left it, and resolves.
C20_DeleteIdempotent ==
  [][(Called /\ last.op = "delete" /\ last'.op = "delete"
        /\ last'.coll = last.coll /\ last'.id = last.id) =>
       /\ mem'[last.coll] = mem[last.coll]
       /\ last'.result = "resolved"]_vars

\* the second of two deletes of the same supplier: the first removed the
\* record, the second found none and the rest of the collection is as it was
C20_Witness ==
  /\ isReady
  /\ Deleted
  /\ last.coll = "suppliers"
  /\ ops = 2
  /\ last.id # "no-such-id"
  /\ Hits(last.before, last.id) = {}
  /\ After = last.before
  /\ Len(After) = Len(Defaults("suppliers")) - 1

\* --------------------------------------------------------------------- C21
\* the last operation was the 'Concluir' button of a row
ByConcluir == Updated /\ "row" \in DOMAIN last

\* C21: after 'Concluir' on a revision the record in that row has status
\* 'concluida' and its identity and every other field as before, the
\* collection has the same length and every other row is as it was; the
\* button was there only because the status was not 'concluida'.
C21_ConcluirChangesStatusOnly ==
  ByConcluir =>
    /\ Len(After) = Len(last.before)
    /\ Get(last.before[last.row], "status") # "concluida"
    /\ \A i \in 1..Len(After) :
         IF i = last.row
         THEN /\ Get(After[i], "status") = "concluida"
              /\ \A f \in Fields \ {"status"} :
                   Get(After[i], f) = Get(last.before[i], f)
         ELSE After[i] = last.before[i]

\* --------------------------------------------------------------------- C22
\* C22: while the store is not ready no persist write is in flight, each key
\* holds what it held when the process started or the seed list, and storage
\* changes only by a load seeding an absent key.
C22_NoWriteBeforeReady ==
  /\ [](~isReady =>
          \A c \in Coll :
            /\ inflight[c] = <<>>
            /\ storage[STORAGE_KEYS[c]]
                 \in {startStorage[STORAGE_KEYS[c]], Stringify(Defaults(c))})
  /\ [][(~isReady /\ storage' # storage) =>
          \E c \in Coll :
            /\ loadPc[c] = "pending" /\ loadPc'[c] = "done"
            /\ storage[STORAGE_KEYS[c]] = ABSENT
            /\ storage' = [storage EXCEPT ![STORAGE_KEYS[c]] = Stringify(Defaults(c))]]_vars

\* not ready: a record was created in a placeholder, the render after it has
\* committed and its persist effect has issued nothing
C22_Witness ==
  /\ ~isReady
  /\ Created
  /\ Len(After) = 1
  /\ ~dirty[last.coll]
  /\ \A c \in Coll : inflight[c] = <<>>
  /\ storage[STORAGE_KEYS[last.coll]] # Stringify(After)

\* --------------------------------------------------------------------- C23
\* C23: every key holds what it held when the process started, the seed
\* list, or the text of a whole collection; every write in flight carries the
\* text of the whole in-memory collection its own collection was when the
\* persist effect ran; a write that settles stores that text under its own
\* key and leaves the other keys as they were.
C23_WholeSnapshots ==
  /\ [](\A c \in Coll :
          /\ \/ storage[STORAGE_KEYS[c]] = startStorage[STORAGE_KEYS[c]]
             \/ storage[STORAGE_KEYS[c]] = Stringify(Defaults(c))
             \/ storage[STORAGE_KEYS[c]] = Stringify(source[STORAGE_KEYS[c]])
          /\ \A i \in 1..Len(inflight[c]) :
               inflight[c][i].text = Stringify(inflight[c][i].snap))
  /\ [][Commits =>
          \A c \in Coll :
            Len(inflight'[c]) > Len(inflight[c]) => Last(inflight'[c]).snap = mem[c]]_vars
  /\ [][\A c \in Coll :
          WriteLands(c) =>
            /\ \A d \in Coll \ {c} : storage'[STORAGE_KEYS[d]] = storage[STORAGE_KEYS[d]]
            /\ \E i \in 1..Len(inflight[c]) :
                 /\ source'[STORAGE_KEYS[c]] = inflight[c][i].snap
                 /\ storage'[STORAGE_KEYS[c]] = Stringify(inflight[c][i].snap)]_vars

\* the key of the collection a record was created in holds the whole
\* collection with that record, the other four keys hold their seed lists
C23_Witness ==
  /\ isReady
  /\ Created
  /\ Len(After) = Len(Defaults(last.coll)) + 1
  /\ storage[STORAGE_KEYS[last.coll]] = Stringify(After)
  /\ \A d \in Coll \ {last.coll} : storage[STORAGE_KEYS[d]] = Stringify(Defaults(d))

\* --------------------------------------------------------------------- C24
\* C24: when every storage call of the loads settles, a store that is not
\* ready becomes ready, whatever keys are absent, present or fail; isReady
\* stays true for as long as the process runs; and isReady becomes true only
\* in a step before which no load is pending, so a load that never settles
\* keeps the store from ever being ready.
C24_StartupTerminates ==
  /\ (~isReady) ~> isReady
  /\ [][(isReady /\ boots' = boots) => isReady']_vars
  /\ [][(~isReady /\ isReady') => \A c \in Coll : loadPc[c] # "pending"]_vars

\* ready after a restart in which one key did not parse and another key was
\* read back from what the first run had stored
C24_Witness ==
  /\ isReady
  /\ boots = 1
  /\ \E c \in Coll : loadPc[c] = "failed"
  /\ \E c \in Coll : loadPc[c] = "done" /\ PresentAtStart(c)

\* --------------------------------------------------------------------- C25
\* C25: when the store becomes ready every collection is set to its loaded
\* value, which is the seed list or what the key holds; the records that
\* were in the placeholders are from then on in no in-memory collection, in
\* no write in flight and under no key.
C25_PreReadyMutationLost ==
  /\ [][BecomesReady =>
          /\ mem' = loaded
          /\ \A c \in Coll :
               \/ mem'[c] = Defaults(c)
               \/ /\ storage[STORAGE_KEYS[c]].kind = "json"
                  /\ mem'[c] = Parse(storage[STORAGE_KEYS[c]])]_vars
  /\ [](\A c \in Coll :
          /\ isReady => IdsOf(mem[c]) \cap lost = {}
          /\ \A i \in 1..Len(inflight[c]) : IdsOf(inflight[c][i].snap) \cap lost = {}
          /\ storage[STORAGE_KEYS[c]].kind = "json" =>
               IdsOf(Parse(storage[STORAGE_KEYS[c]])) \cap lost = {})

\* a record created before ready was replaced by bootstrap; every write has
\* settled and every key holds its in-memory collection, without that record
C25_Witness ==
  /\ isReady
  /\ lost # {}
  /\ NothingPending
  /\ \A c \in Coll : storage[STORAGE_KEYS[c]] = Stringify(mem[c])

\* --------------------------------------------------------------------- C26
\* C26: on every screen a delete is called only from the alert shown for
\* that record, by its destructive button; pressing the delete control of a
\* row, and leaving the alert by its cancel button, change no collection.
C26_DeleteOnlyAfterConfirm ==
  /\ [][(Called /\ last'.op = "delete") =>
          /\ screen.alert # NoAlert
          /\ screen.alert.coll = last'.coll
          /\ screen.alert.id = last'.id]_vars
  /\ [][(screen.alert = NoAlert /\ screen'.alert # NoAlert) => mem' = mem]_vars
  /\ [][(screen.alert # NoAlert /\ screen'.alert = NoAlert /\ ~Called) =>
          mem' = mem]_vars

\* --------------------------------------------------------------------- C27
\* C27: an operation called while the form of a screen is shown is called
\* by the submit of that form, once per submit: with a record being edited it
\* is an update with that record's identity and the collection keeps its
\* length, with none it is a create and the collection is one longer.  When
\* the submit ends after its call the form is hidden and no record is being
\* edited.  Hiding the form leaves no record being edited, so none is while
\* the form is hidden, and the form opened for a create has none.
C27_SubmitRouting ==
  /\ [][\A c \in Coll :
          (Called /\ screen.visible[c]) =>
            /\ screen.submit # NoSubmit
            /\ screen.submit.coll = c
            /\ screen.submit.pc = "validating"
            /\ screen'.submit = [screen.submit EXCEPT !.pc = "called"]
            /\ last'.coll = c
            /\ IF screen.editing[c] # {}
               THEN /\ last'.op = "update"
                    /\ last'.id \in {Get(r, "id") : r \in screen.editing[c]}
                    /\ Len(mem'[c]) = Len(mem[c])
               ELSE /\ last'.op = "create"
                    /\ Len(mem'[c]) = Len(mem[c]) + 1]_vars
  /\ [][\A c \in Coll :
          (/\ screen.submit # NoSubmit
           /\ screen.submit.coll = c
           /\ screen.submit.pc = "called"
           /\ screen' # screen) =>
            /\ screen'.submit = NoSubmit
            /\ ~screen'.visible[c]
            /\ screen'.editing[c] = {}
            /\ mem' = mem]_vars
  /\ [][\A c \in Coll :
          (screen.visible[c] /\ ~screen'.visible[c]) => screen'.editing[c] = {}]_vars
  /\ [](\A c \in Coll :
          /\ ~screen.visible[c] => screen.editing[c] = {}
          /\ screen.opened[c] = "create" => (screen.visible[c] /\ screen.editing[c] = {})
          /\ screen.opened[c] = "edit" => (screen.visible[c] /\ screen.editing[c] # {}))

\* the form was submitted with a record being edited and the submit has
\* ended: that record was updated, the collection has the length it had, the
\* form is hidden and no record is being edited
C27_Witness ==
  /\ isReady
  /\ Updated
  /\ "via" \in DOMAIN last
  /\ last.via = "submit"
  /\ Hits(last.before, last.id) # {}
  /\ After # last.before
  /\ Len(After) = Len(last.before)
  /\ screen.submit = NoSubmit
  /\ ~screen.visible[last.coll]
  /\ screen.editing[last.coll] = {}

\* --------------------------------------------------------------------- C28
\* the process is the first one and found every key absent
FirstRun == boots = 0 /\ \A k \in Keys : startStorage[k] = ABSENT

\* the assignedTo of every revision with a seed identity, and the
\* preferredAdvisor of every client with a seed identity that has one, is the
\* identity of a record of the team collection
SeedRefsResolve ==
  /\ \A i \in 1..Len(mem["revisions"]) :
       Get(mem["revisions"][i], "id") \in IdsOf(Defaults("revisions")) =>
         Get(mem["revisions"][i], "assignedTo") \in IdsOf(mem["team"])
  /\ \A i \in 1..Len(mem["clients"]) :
       (Get(mem["clients"][i], "id") \in IdsOf(Defaults("clients"))
          /\ Get(mem["clients"][i], "preferredAdvisor") # UNDEF) =>
         Get(mem["clients"][i], "preferredAdvisor") \in IdsOf(mem["team"])

\* C28 as stated: on a first run on empty storage the references of the
\* seeded revisions and clients resolve when the store becomes ready, and
\* stop resolving only by a delete called on the team collection.
C28_SeedRefsUntilTeamDelete ==
  /\ []((FirstRun /\ JustReady) => SeedRefsResolve)
  /\ [][(FirstRun /\ isReady /\ SeedRefsResolve /\ ~SeedRefsResolve') =>
          (Called /\ last'.op = "delete" /\ last'.coll = "team")]_vars

\* C28 amended: on a first run on empty storage the references of the
\* seeded revisions and clients resolve when the store becomes ready, and
\* stop resolving only by a delete called on the team collection or by an
\* update called on the collection of the referring record.
C28_SeedRefsUntilDeleteOrUpdate ==
  /\ []((FirstRun /\ JustReady) => SeedRefsResolve)
  /\ [][(FirstRun /\ isReady /\ SeedRefsResolve /\ ~SeedRefsResolve') =>
          /\ Called
          /\ \/ last'.op = "delete" /\ last'.coll = "team"
             \/ last'.op = "update" /\ last'.coll \in {"revisions", "clients"}]_vars

\* first run on empty storage, a team member added since: the seeded
\* revisions and the seeded client that has an advisor refer to team members
C28_Witness ==
  /\ FirstRun
  /\ isReady
  /\ Created
  /\ last.coll = "team"
  /\ Len(mem["revisions"]) = 3
  /\ Len(mem["clients"]) = 2
  /\ SeedRefsResolve
  /\ Get(mem["revisions"][1], "assignedTo") = Get(mem["team"][3], "id")
  /\ Get(mem["clients"][1], "preferredAdvisor") = Get(mem["team"][2], "id")

====
